---------------------------- MODULE Spec2Model ----------------------------
(***************************************************************************)
(* Model of the batiserv order-tracking API (src/unnamed/part_000): the    *)
(* module-level arrays users / customers / specialOptions, their mirror in *)
(* localStorage, the IndexedDB blob store, and every exported operation    *)
(* that mutates them, with importData as the central merge algorithm.      *)
(*                                                                         *)
(* Strings are sequences of one-character strings, so that toLowerCase,    *)
(* trim and the whitespace replacement of the e-mail derivation are        *)
(* computed character by character.  An absent value (null / undefined /   *)
(* a missing localStorage key) is the empty sequence None, a present one   *)
(* is the one-element sequence Some(v).                                    *)
(***************************************************************************)
EXTENDS Integers, Sequences, FiniteSets, TLC

VARIABLES
    users,           \* let users: UserWithPassword[]
    customers,       \* let customers: Customer[]
    specialOptions,  \* let specialOptions: SpecialOption[]
    localStorage,    \* key -> None | Some(document)
    fileDB,          \* ids of the blobs held by the IndexedDB object store
    pending,         \* file uploads suspended at their await
    deleting,        \* ids whose IndexedDB delete request is in flight
    last             \* the call that completed last: name, arguments, outcome,
                     \* the rows it imported and the states between them

vars == <<users, customers, specialOptions, localStorage, fileDB, pending, deleting, last>>

----------------------------------------------------------------------------
(* Bounds of the model *)

\* self.crypto.randomUUID() draws its ids from 1..MaxId
MaxId == 5
\* number of file uploads that may be suspended at the same time
MaxPending == 1
\* number of calls the specifications of the whole API let a caller make
MaxCalls == 4
\* number of fields in the data lines given to parseCSV
MaxFields == 3

----------------------------------------------------------------------------
(* Strings *)

None == <<>>
Some(v) == <<v>>

UpperAlphabet ==
    <<"A","B","C","D","E","F","G","H","I","J","K","L","M",
      "N","O","P","Q","R","S","T","U","V","W","X","Y","Z">>
LowerAlphabet ==
    <<"a","b","c","d","e","f","g","h","i","j","k","l","m",
      "n","o","p","q","r","s","t","u","v","w","x","y","z">>

\* String.prototype.toLowerCase on one character
LowerChar(c) ==
    IF \E i \in DOMAIN UpperAlphabet : UpperAlphabet[i] = c
    THEN LowerAlphabet[CHOOSE i \in DOMAIN UpperAlphabet : UpperAlphabet[i] = c]
    ELSE c

\* String.prototype.toUpperCase on one character
UpperChar(c) ==
    IF \E i \in DOMAIN LowerAlphabet : LowerAlphabet[i] = c
    THEN UpperAlphabet[CHOOSE i \in DOMAIN LowerAlphabet : LowerAlphabet[i] = c]
    ELSE c

\* the sequence of f applied to every element of s
RECURSIVE Map(_, _)
Map(f(_), s) == IF s = <<>> THEN <<>> ELSE <<f(Head(s))>> \o Map(f, Tail(s))

toLowerCase(s) == Map(LowerChar, s)
toUpperCase(s) == Map(UpperChar, s)

\* the byte-order mark U+FEFF, one character
BOM == "BOM"

\* the characters the regular expression \s and trim() treat as white space
IsSpace(c) == c \in {" ", "\t", BOM}

\* String.prototype.trim
RECURSIVE TrimLeft(_)
TrimLeft(s) == IF s # <<>> /\ IsSpace(Head(s)) THEN TrimLeft(Tail(s)) ELSE s
RECURSIVE TrimRight(_)
TrimRight(s) ==
    IF s # <<>> /\ IsSpace(s[Len(s)]) THEN TrimRight(SubSeq(s, 1, Len(s) - 1)) ELSE s
trim(s) == TrimRight(TrimLeft(s))

\* s.replace(/\s/g, '.')
DotSpaces(s) == Map(LAMBDA c : IF IsSpace(c) THEN "." ELSE c, s)

\* index of the first element of s satisfying T, 0 when there is none (Array.find)
FirstIndex(s, T(_)) ==
    LET hits == {i \in DOMAIN s : T(s[i])} IN
    IF hits = {} THEN 0 ELSE CHOOSE i \in hits : \A j \in hits : i <= j

\* string literals of the source
ExampleDotCom == <<"@","e","x","a","m","p","l","e",".","c","o","m">>
sTaoufik == <<"t","a","o","u","f","i","k">>
sEditor == <<"E","d","i","t","o","r">>
sViewer == <<"V","i","e","w","e","r">>
sAdmin == <<"A","d","m","i","n">>
sPassword == <<"p","a","s","s","w","o","r","d">>
sSeedPassword == <<"1","2","3","4","5","6","7","8","9">>
sHuisseries == <<"h","u","i","s","s","e","r","i","e","s">>
sPortes == <<"p","o","r","t","e","s">>
\* 'Envoyee (e acute)'; "e-acute" is the one character U+00E9
sEnvoyee == <<"E","n","v","o","y","e-acute","e">>

\* const validRoles: UserRole[] = ['Admin', 'Editor', 'Viewer']
validRoles == {sAdmin, sEditor, sViewer}

USERS_KEY == "batiserv_users"
CUSTOMERS_KEY == "batiserv_customers"
OPTIONS_KEY == "batiserv_special_options"

----------------------------------------------------------------------------
(* Persistence: localStorage *)

\* loadInitialData(key, defaultValue)
loadInitialData(key, defaultValue) ==
    IF localStorage[key] # None THEN localStorage[key][1] ELSE defaultValue

\* localStorage.setItem(key, JSON.stringify(value)); the documents hold only
\* strings, booleans, null and arrays, which JSON round-trips unchanged
setItem(store, key, value) == [store EXCEPT ![key] = Some(value)]

\* saveUsers(), saveCustomers() and saveOptions(), given the list to write
saveUsers(store, us) == setItem(store, USERS_KEY, us)
\* the customers written under the key of the special options
saveCustomersAsOptions(store, cs) == setItem(store, OPTIONS_KEY, cs)
saveCustomers(store, cs) == setItem(store, CUSTOMERS_KEY, cs)
saveOptions(store, os) == setItem(store, OPTIONS_KEY, os)

----------------------------------------------------------------------------
(* The record of the last completed call *)

NoArgs ==
    [customerId |-> 0, siteId |-> 0, orderId |-> 0, userId |-> 0, optionId |-> 0,
     fileId |-> 0, part |-> "", csvString |-> <<>>]

\* the record before any call: the module has been loaded
Loaded ==
    [op |-> "load", args |-> NoArgs, thrown |-> FALSE, csv |-> <<>>, trace |-> <<>>, n |-> 0]

\* the record of a call that resolved, or threw; n counts the calls up to MaxCalls
Call(op, args, thrown) ==
    [op |-> op, args |-> args, thrown |-> thrown, csv |-> <<>>, trace |-> <<>>,
     n |-> IF last.n < MaxCalls THEN last.n + 1 ELSE MaxCalls]

\* the caller may start another call
CallsLeft == last.n < MaxCalls

----------------------------------------------------------------------------
(* Initial state: first load of the module in a browser with empty storage *)

\* the users seeded when none are stored; the ids -1, -2, -3 stand for
\* 'admin-seed-1', 'editor-1', 'viewer-1', which no randomUUID() returns
SeedUsers ==
    << [id |-> -1, name |-> sTaoufik, email |-> sTaoufik \o ExampleDotCom,
        password |-> sSeedPassword, role |-> sAdmin],
       [id |-> -2, name |-> sEditor, email |-> toLowerCase(sEditor) \o ExampleDotCom,
        password |-> sPassword, role |-> sEditor],
       [id |-> -3, name |-> sViewer, email |-> toLowerCase(sViewer) \o ExampleDotCom,
        password |-> sPassword, role |-> sViewer] >>

EmptyStorage == [k \in {USERS_KEY, CUSTOMERS_KEY, OPTIONS_KEY} |-> None]

Init ==
    /\ users = SeedUsers
    /\ customers = <<>>
    /\ specialOptions = <<>>
    /\ localStorage = saveUsers(EmptyStorage, SeedUsers)
    /\ fileDB = {}
    /\ pending = <<>>
    /\ deleting = {}
    /\ last = Loaded

----------------------------------------------------------------------------
(* Identifiers *)

\* the union of the sets f(e), e an element of the sequence s
UnionOver(s, f(_)) == UNION {f(s[i]) : i \in DOMAIN s}

PartIds(part) == IF part = None THEN {} ELSE {part[1].userId}
OrderIds(o) == {o.id} \cup PartIds(o.frames) \cup PartIds(o.doors)
FileIds(f) == {f.id}
SiteIds(t) ==
    {t.id} \cup UnionOver(t.generalInfoFiles, FileIds) \cup UnionOver(t.orders, OrderIds)
CustomerIds(c) == {c.id} \cup UnionOver(c.sites, SiteIds)
OptionIds(o) == {o.id} \cup UnionOver(o.files, FileIds)

\* every id held or referred to anywhere in the program's state
UsedIds ==
    UnionOver(users, LAMBDA u : {u.id})
    \cup UnionOver(customers, CustomerIds)
    \cup UnionOver(specialOptions, OptionIds)
    \cup UnionOver(pending, LAMBDA p : {p.customerId, p.siteId, p.optionId})
    \cup fileDB \cup deleting

\* self.crypto.randomUUID(): an id that is nowhere in use; the ids are taken
\* in increasing order, the model keeping one representative of the choices
randomUUID(used) ==
    CHOOSE id \in 1..(Cardinality(used) + 1) :
        id \notin used /\ \A j \in 1..(id - 1) : j \in used

\* the id the next call of randomUUID() returns
nextId == randomUUID(UsedIds)

----------------------------------------------------------------------------
(* Users *)

NameTaken(us, name) == \E i \in DOMAIN us : toLowerCase(us[i].name) = toLowerCase(name)
EmailTaken(us, email) == \E i \in DOMAIN us : toLowerCase(us[i].email) = toLowerCase(email)

addUser(name, email, password, role) ==
    LET args == NoArgs IN
    IF NameTaken(users, name) \/ EmailTaken(users, email)
    THEN /\ last' = Call("addUser", args, TRUE)
         /\ UNCHANGED <<users, customers, specialOptions, localStorage, fileDB, pending,
                        deleting>>
    ELSE /\ nextId <= MaxId
         /\ users' = Append(users, [id |-> nextId, name |-> name, email |-> email,
                                    password |-> password, role |-> role])
         /\ localStorage' = saveUsers(localStorage, users')
         /\ last' = Call("addUser", [args EXCEPT !.userId = nextId], FALSE)
         /\ UNCHANGED <<customers, specialOptions, fileDB, pending, deleting>>

signup(name, email, password_param) ==
    LET args == NoArgs IN
    IF NameTaken(users, name) \/ EmailTaken(users, email)
    THEN /\ last' = Call("signup", args, TRUE)
         /\ UNCHANGED <<users, customers, specialOptions, localStorage, fileDB, pending,
                        deleting>>
    ELSE /\ nextId <= MaxId
         /\ users' = Append(users, [id |-> nextId, name |-> name, email |-> email,
                                    password |-> password_param, role |-> sViewer])
         /\ localStorage' = saveUsers(localStorage, users')
         /\ last' = Call("signup", [args EXCEPT !.userId = nextId], FALSE)
         /\ UNCHANGED <<customers, specialOptions, fileDB, pending, deleting>>

\* a field of a Partial<...> argument: None when the key is absent
Given(opt, old) == IF opt # None THEN opt[1] ELSE old
\* updates.field && ... : the key is present and its string is not empty
Truthy(opt) == opt # None /\ opt[1] # <<>>

\* { ...u, ...updates }, the stored password kept when updates.password is falsy
MergeUser(u, updates) ==
    [id |-> u.id,
     name |-> Given(updates.name, u.name),
     email |-> Given(updates.email, u.email),
     role |-> Given(updates.role, u.role),
     password |-> IF Truthy(updates.password) THEN updates.password[1] ELSE u.password]

updateUser(id, updates) ==
    LET args == [NoArgs EXCEPT !.userId = id]
        nameClash ==
            /\ Truthy(updates.name)
            /\ \E i \in DOMAIN users :
                   /\ users[i].id # id
                   /\ toLowerCase(users[i].name) = toLowerCase(updates.name[1])
        emailClash ==
            /\ Truthy(updates.email)
            /\ \E i \in DOMAIN users :
                   /\ users[i].id # id
                   /\ toLowerCase(users[i].email) = toLowerCase(updates.email[1])
    IN
    IF nameClash \/ emailClash
    THEN /\ last' = Call("updateUser", args, TRUE)
         /\ UNCHANGED <<users, customers, specialOptions, localStorage, fileDB, pending,
                        deleting>>
    ELSE /\ users' = [i \in DOMAIN users |->
                         IF users[i].id = id THEN MergeUser(users[i], updates) ELSE users[i]]
         /\ localStorage' = saveUsers(localStorage, users')
         /\ last' = Call("updateUser", args, FALSE)
         /\ UNCHANGED <<customers, specialOptions, fileDB, pending, deleting>>

deleteUser(id) ==
    /\ users' = SelectSeq(users, LAMBDA u : u.id # id)
    /\ localStorage' = saveUsers(localStorage, users')
    /\ last' = Call("deleteUser", [NoArgs EXCEPT !.userId = id], FALSE)
    /\ UNCHANGED <<customers, specialOptions, fileDB, pending, deleting>>


----------------------------------------------------------------------------
(* Lookups in the customer tree *)

\* customers.find(c => c.id === customerId), as an index (0: undefined)
CustomerIndex(cs, customerId) == FirstIndex(cs, LAMBDA c : c.id = customerId)
\* customer.sites.find(s => s.id === siteId)
SiteIndex(c, siteId) == FirstIndex(c.sites, LAMBDA t : t.id = siteId)
\* site.orders.find(o => o.id === orderId)
OrderIndex(site, orderId) == FirstIndex(site.orders, LAMBDA o : o.id = orderId)

\* customers.find(c => c.id === customerId)?.sites.find(s => s.id === siteId)
HasSite(cs, customerId, siteId) ==
    /\ CustomerIndex(cs, customerId) # 0
    /\ SiteIndex(cs[CustomerIndex(cs, customerId)], siteId) # 0

SiteOf(cs, customerId, siteId) ==
    LET c == cs[CustomerIndex(cs, customerId)] IN c.sites[SiteIndex(c, siteId)]

\* the tree with the site (customerId, siteId) replaced by newSite
WithSite(cs, customerId, siteId, newSite) ==
    LET ci == CustomerIndex(cs, customerId)
        si == SiteIndex(cs[ci], siteId)
    IN [cs EXCEPT ![ci].sites[si] = newSite]

\* order[part], part being 'frames' or 'doors'
PartOf(order, part) == IF part = "frames" THEN order.frames ELSE order.doors
WithPart(order, part, p) ==
    IF part = "frames" THEN [order EXCEPT !.frames = Some(p)]
    ELSE [order EXCEPT !.doors = Some(p)]

\* A suspended upload holds a reference to the site (option) object it looked
\* up.  mode tells where a later push on that reference lands:
\*   "attached"  the object is still the one in the tree;
\*   "shared"    the object was replaced by a spread copy { ...s, ...updates },
\*               which shares the files array with it;
\*   "detached"  neither the object nor its files array is in the tree.
Retarget(ps, hit(_), newMode(_)) ==
    [i \in DOMAIN ps |->
        IF hit(ps[i]) THEN [ps[i] EXCEPT !.mode = newMode(ps[i].mode)] ELSE ps[i]]

----------------------------------------------------------------------------
(* Customers *)

addCustomer(name) ==
    /\ nextId <= MaxId
    /\ customers' = Append(customers, [id |-> nextId, name |-> name, sites |-> <<>>,
                                       notes |-> <<>>])
    /\ localStorage' = saveCustomers(localStorage, customers')
    /\ last' = Call("addCustomer", [NoArgs EXCEPT !.customerId = nextId],
                    FALSE)
    /\ UNCHANGED <<users, specialOptions, fileDB, pending, deleting>>

deleteCustomer(id) ==
    /\ customers' = SelectSeq(customers, LAMBDA c : c.id # id)
    /\ localStorage' = saveCustomers(localStorage, customers')
    /\ pending' = Retarget(pending,
                           LAMBDA p : p.kind = "addFileToSite" /\ p.customerId = id,
                           LAMBDA m : "detached")
    /\ last' = Call("deleteCustomer", [NoArgs EXCEPT !.customerId = id], FALSE)
    /\ UNCHANGED <<users, specialOptions, fileDB, deleting>>

\* updates: Partial<Customer> giving name and / or notes
updateCustomer(id, updates) ==
    /\ customers' = [i \in DOMAIN customers |->
                        IF customers[i].id = id
                        THEN [customers[i] EXCEPT
                                 !.name = Given(updates.name, customers[i].name),
                                 !.notes = Given(updates.notes, customers[i].notes)]
                        ELSE customers[i]]
    /\ localStorage' = saveCustomers(localStorage, customers')
    /\ last' = Call("updateCustomer", [NoArgs EXCEPT !.customerId = id], FALSE)
    /\ UNCHANGED <<users, specialOptions, fileDB, pending, deleting>>

----------------------------------------------------------------------------
(* Sites *)

\* an addSite that, as deleteSite does, resolves when the customer is not found
addSiteIfFound(customerId, name) ==
    LET args == [NoArgs EXCEPT !.customerId = customerId]
        ci == CustomerIndex(customers, customerId)
    IN
    IF ci = 0
    THEN /\ last' = Call("addSite", args, FALSE)
         /\ UNCHANGED <<users, customers, specialOptions, localStorage, fileDB, pending,
                        deleting>>
    ELSE /\ nextId <= MaxId
         /\ customers' = [customers EXCEPT ![ci].sites =
                             Append(@, [id |-> nextId, name |-> name, generalInfo |-> <<>>,
                                        generalInfoFiles |-> <<>>, orders |-> <<>>])]
         /\ localStorage' = saveCustomers(localStorage, customers')
         /\ last' = Call("addSite", [args EXCEPT !.siteId = nextId], FALSE)
         /\ UNCHANGED <<users, specialOptions, fileDB, pending, deleting>>

addSite(customerId, name) ==
    LET args == [NoArgs EXCEPT !.customerId = customerId]
        ci == CustomerIndex(customers, customerId)
    IN
    IF ci = 0
    THEN /\ last' = Call("addSite", args, TRUE)
         /\ UNCHANGED <<users, customers, specialOptions, localStorage, fileDB, pending,
                        deleting>>
    ELSE /\ nextId <= MaxId
         /\ customers' = [customers EXCEPT ![ci].sites =
                             Append(@, [id |-> nextId, name |-> name, generalInfo |-> <<>>,
                                        generalInfoFiles |-> <<>>, orders |-> <<>>])]
         /\ localStorage' = saveCustomers(localStorage, customers')
         /\ last' = Call("addSite", [args EXCEPT !.siteId = nextId], FALSE)
         /\ UNCHANGED <<users, specialOptions, fileDB, pending, deleting>>

deleteSite(customerId, siteId) ==
    LET args == [NoArgs EXCEPT !.customerId = customerId, !.siteId = siteId]
        ci == CustomerIndex(customers, customerId)
    IN
    /\ last' = Call("deleteSite", args, FALSE)
    /\ IF ci # 0
       THEN /\ customers' = [customers EXCEPT ![ci].sites =
                                SelectSeq(@, LAMBDA t : t.id # siteId)]
            /\ localStorage' = saveCustomers(localStorage, customers')
            /\ pending' = Retarget(pending,
                              LAMBDA p : /\ p.kind = "addFileToSite"
                                         /\ p.customerId = customerId
                                         /\ p.siteId = siteId,
                              LAMBDA m : "detached")
       ELSE UNCHANGED <<customers, localStorage, pending>>
    /\ UNCHANGED <<users, specialOptions, fileDB, deleting>>

\* updates: Partial<ConstructionSite> giving name and / or generalInfo
updateSite(customerId, siteId, updates) ==
    LET args == [NoArgs EXCEPT !.customerId = customerId, !.siteId = siteId]
        ci == CustomerIndex(customers, customerId)
    IN
    /\ last' = Call("updateSite", args, FALSE)
    /\ IF ci # 0
       THEN /\ customers' = [customers EXCEPT ![ci].sites =
                                LET sites == customers[ci].sites IN
                                [i \in DOMAIN sites |->
                                    IF sites[i].id = siteId
                                    THEN [sites[i] EXCEPT
                                             !.name = Given(updates.name, sites[i].name),
                                             !.generalInfo =
                                                 Given(updates.generalInfo,
                                                       sites[i].generalInfo)]
                                    ELSE sites[i]]]
            /\ localStorage' = saveCustomers(localStorage, customers')
            /\ pending' = Retarget(pending,
                              LAMBDA p : /\ p.kind = "addFileToSite"
                                         /\ p.customerId = customerId
                                         /\ p.siteId = siteId,
                              LAMBDA m : IF m = "attached" THEN "shared" ELSE m)
       ELSE UNCHANGED <<customers, localStorage, pending>>
    /\ UNCHANGED <<users, specialOptions, fileDB, deleting>>


----------------------------------------------------------------------------
(* Site files *)

\* an upload suspended at await addFileToDB(file) / a request to resume it
Upload(kind, customerId, siteId, optionId, file) ==
    [kind |-> kind, customerId |-> customerId, siteId |-> siteId, optionId |-> optionId,
     file |-> file, mode |-> "attached"]

\* pending without its i-th entry
Without(ps, i) == SubSeq(ps, 1, i - 1) \o SubSeq(ps, i + 1, Len(ps))

\* addFileToSite up to its await: the site lookup and the "Site not found" throw
addFileToSite(customerId, siteId, file) ==
    LET args == [NoArgs EXCEPT !.customerId = customerId, !.siteId = siteId] IN
    IF ~HasSite(customers, customerId, siteId)
    THEN /\ last' = Call("addFileToSite", args, TRUE)
         /\ UNCHANGED <<users, customers, specialOptions, localStorage, fileDB, pending,
                        deleting>>
    ELSE /\ Len(pending) < MaxPending
         /\ pending' = Append(pending, Upload("addFileToSite", customerId, siteId, 0, file))
         /\ UNCHANGED <<users, customers, specialOptions, localStorage, fileDB, deleting,
                        last>>

\* addFileToSite after its await: addFileToDB has stored the blob under a fresh
\* id; the file record is pushed on the site object looked up before the await
addFileToSiteResume(i) ==
    LET p == pending[i]
        newFile == [id |-> nextId, name |-> p.file.name, type |-> p.file.type]
        args == [NoArgs EXCEPT !.customerId = p.customerId, !.siteId = p.siteId,
                               !.fileId = nextId]
    IN
    /\ p.kind = "addFileToSite"
    /\ nextId <= MaxId
    /\ fileDB' = fileDB \cup {nextId}
    /\ pending' = Without(pending, i)
    /\ customers' =
           IF p.mode = "detached" THEN customers
           ELSE LET site == SiteOf(customers, p.customerId, p.siteId) IN
                WithSite(customers, p.customerId, p.siteId,
                         [site EXCEPT !.generalInfoFiles = Append(@, newFile)])
    /\ localStorage' = saveCustomers(localStorage, customers')
    /\ last' = Call("addFileToSite", args, FALSE)
    /\ UNCHANGED <<users, specialOptions, deleting>>

deleteFileFromSite(customerId, siteId, fileId) ==
    LET args == [NoArgs EXCEPT !.customerId = customerId, !.siteId = siteId,
                               !.fileId = fileId]
    IN
    /\ last' = Call("deleteFileFromSite", args, FALSE)
    /\ IF HasSite(customers, customerId, siteId)
       THEN LET site == SiteOf(customers, customerId, siteId) IN
            /\ customers' = WithSite(customers, customerId, siteId,
                                [site EXCEPT !.generalInfoFiles =
                                    SelectSeq(@, LAMBDA f : f.id # fileId)])
            /\ localStorage' = saveCustomers(localStorage, customers')
            /\ pending' = Retarget(pending,
                              LAMBDA p : /\ p.kind = "addFileToSite"
                                         /\ p.customerId = customerId
                                         /\ p.siteId = siteId,
                              LAMBDA m : IF m = "shared" THEN "detached" ELSE m)
            /\ deleting' = deleting \cup {fileId}
       ELSE UNCHANGED <<customers, localStorage, pending, deleting>>
    /\ UNCHANGED <<users, specialOptions, fileDB>>

\* the delete request of deleteFileFromDB(id) succeeds
deleteFileFromDB(id) ==
    /\ id \in deleting
    /\ deleting' = deleting \ {id}
    /\ fileDB' = fileDB \ {id}
    /\ UNCHANGED <<users, customers, specialOptions, localStorage, pending, last>>

----------------------------------------------------------------------------
(* Orders *)

\* a part that takes the user's e-mail for the user's name
NewPartEmailAsName(number, isSent, creationDate, user, notes) ==
    [number |-> number, isSent |-> isSent, creationDate |-> creationDate,
     userId |-> user.id, userName |-> user.email, notes |-> notes]

\* the OrderPart object literal of addOrder and of importData
NewPart(number, isSent, creationDate, user, notes) ==
    [number |-> number, isSent |-> isSent, creationDate |-> creationDate,
     userId |-> user.id, userName |-> user.name, notes |-> notes]

\* now: the value of new Date().toISOString()
addOrder(customerId, siteId, framesNumber, doorsNumber, userId, now) ==
    LET args == [NoArgs EXCEPT !.customerId = customerId, !.siteId = siteId,
                               !.userId = userId]
        ui == FirstIndex(users, LAMBDA u : u.id = userId)
        hasFrames == trim(framesNumber) # <<>>
        hasDoors == trim(doorsNumber) # <<>>
    IN
    IF \/ ~HasSite(customers, customerId, siteId)
       \/ ui = 0
       \/ (~hasFrames /\ ~hasDoors)
    THEN /\ last' = Call("addOrder", args, TRUE)
         /\ UNCHANGED <<users, customers, specialOptions, localStorage, fileDB, pending,
                        deleting>>
    ELSE LET site == SiteOf(customers, customerId, siteId)
             framesId == nextId
             doorsId == IF hasFrames THEN randomUUID(UsedIds \cup {nextId}) ELSE nextId
             framesOrder ==
                 [id |-> framesId,
                  frames |-> Some(NewPart(trim(framesNumber), FALSE, now, users[ui], <<>>)),
                  doors |-> None]
             doorsOrder ==
                 [id |-> doorsId,
                  frames |-> None,
                  doors |-> Some(NewPart(trim(doorsNumber), FALSE, now, users[ui], <<>>))]
             newOrders == (IF hasFrames THEN <<framesOrder>> ELSE <<>>)
                          \o (IF hasDoors THEN <<doorsOrder>> ELSE <<>>)
         IN
         /\ framesId <= MaxId /\ doorsId <= MaxId
         /\ customers' = WithSite(customers, customerId, siteId,
                                  [site EXCEPT !.orders = @ \o newOrders])
         /\ localStorage' = saveCustomers(localStorage, customers')
         /\ last' = Call("addOrder", args, FALSE)
         /\ UNCHANGED <<users, specialOptions, fileDB, pending, deleting>>

deleteOrder(customerId, siteId, orderId) ==
    LET args == [NoArgs EXCEPT !.customerId = customerId, !.siteId = siteId,
                               !.orderId = orderId]
    IN
    /\ last' = Call("deleteOrder", args, FALSE)
    /\ IF HasSite(customers, customerId, siteId)
       THEN LET site == SiteOf(customers, customerId, siteId) IN
            /\ customers' = WithSite(customers, customerId, siteId,
                                [site EXCEPT !.orders = SelectSeq(@, LAMBDA o : o.id # orderId)])
            /\ localStorage' = saveCustomers(localStorage, customers')
       ELSE UNCHANGED <<customers, localStorage>>
    /\ UNCHANGED <<users, specialOptions, fileDB, pending, deleting>>

\* const order = site?.orders.find(o => o.id === orderId); order && order[part]
HasPart(cs, customerId, siteId, orderId, part) ==
    /\ HasSite(cs, customerId, siteId)
    /\ LET site == SiteOf(cs, customerId, siteId) IN
       /\ OrderIndex(site, orderId) # 0
       /\ PartOf(site.orders[OrderIndex(site, orderId)], part) # None

\* the tree after  order[part] = change(order[part])
WithPartChanged(cs, customerId, siteId, orderId, part, change(_)) ==
    LET site == SiteOf(cs, customerId, siteId)
        oi == OrderIndex(site, orderId)
        order == site.orders[oi]
    IN WithSite(cs, customerId, siteId,
                [site EXCEPT !.orders[oi] = WithPart(order, part, change(PartOf(order, part)[1]))])

updateOrder(customerId, siteId, orderId, part, newNumber) ==
    LET args == [NoArgs EXCEPT !.customerId = customerId, !.siteId = siteId,
                               !.orderId = orderId, !.part = part]
    IN
    /\ last' = Call("updateOrder", args, FALSE)
    /\ IF HasPart(customers, customerId, siteId, orderId, part)
       THEN /\ customers' = WithPartChanged(customers, customerId, siteId, orderId, part,
                                LAMBDA p : [p EXCEPT !.number = newNumber])
            /\ localStorage' = saveCustomers(localStorage, customers')
       ELSE UNCHANGED <<customers, localStorage>>
    /\ UNCHANGED <<users, specialOptions, fileDB, pending, deleting>>

updateOrderUser(customerId, siteId, orderId, part, userId) ==
    LET args == [NoArgs EXCEPT !.customerId = customerId, !.siteId = siteId,
                               !.orderId = orderId, !.part = part, !.userId = userId]
        ui == FirstIndex(users, LAMBDA u : u.id = userId)
    IN
    /\ last' = Call("updateOrderUser", args, FALSE)
    /\ IF HasPart(customers, customerId, siteId, orderId, part) /\ ui # 0
       THEN /\ customers' = WithPartChanged(customers, customerId, siteId, orderId, part,
                                LAMBDA p : [p EXCEPT !.userId = users[ui].id,
                                                     !.userName = users[ui].name])
            /\ localStorage' = saveCustomers(localStorage, customers')
       ELSE UNCHANGED <<customers, localStorage>>
    /\ UNCHANGED <<users, specialOptions, fileDB, pending, deleting>>

updateOrderNotes(customerId, siteId, orderId, part, notes) ==
    LET args == [NoArgs EXCEPT !.customerId = customerId, !.siteId = siteId,
                               !.orderId = orderId, !.part = part]
    IN
    /\ last' = Call("updateOrderNotes", args, FALSE)
    /\ IF HasPart(customers, customerId, siteId, orderId, part)
       THEN /\ customers' = WithPartChanged(customers, customerId, siteId, orderId, part,
                                LAMBDA p : [p EXCEPT !.notes = notes])
            /\ localStorage' = saveCustomers(localStorage, customers')
       ELSE UNCHANGED <<customers, localStorage>>
    /\ UNCHANGED <<users, specialOptions, fileDB, pending, deleting>>

toggleOrderStatus(customerId, siteId, orderId, part) ==
    LET args == [NoArgs EXCEPT !.customerId = customerId, !.siteId = siteId,
                               !.orderId = orderId, !.part = part]
    IN
    /\ last' = Call("toggleOrderStatus", args, FALSE)
    /\ IF HasPart(customers, customerId, siteId, orderId, part)
       THEN /\ customers' = WithPartChanged(customers, customerId, siteId, orderId, part,
                                LAMBDA p : [p EXCEPT !.isSent = ~p.isSent])
            /\ localStorage' = saveCustomers(localStorage, customers')
       ELSE UNCHANGED <<customers, localStorage>>
    /\ UNCHANGED <<users, specialOptions, fileDB, pending, deleting>>


----------------------------------------------------------------------------
(* Special options and their files *)

OptionIndex(os, optionId) == FirstIndex(os, LAMBDA o : o.id = optionId)

addSpecialOption(name) ==
    /\ nextId <= MaxId
    /\ specialOptions' = Append(specialOptions, [id |-> nextId, name |-> name,
                                                 details |-> <<>>, files |-> <<>>])
    /\ localStorage' = saveOptions(localStorage, specialOptions')
    /\ last' = Call("addSpecialOption", [NoArgs EXCEPT !.optionId = nextId],
                    FALSE)
    /\ UNCHANGED <<users, customers, fileDB, pending, deleting>>

deleteSpecialOption(id) ==
    /\ specialOptions' = SelectSeq(specialOptions, LAMBDA o : o.id # id)
    /\ localStorage' = saveOptions(localStorage, specialOptions')
    /\ pending' = Retarget(pending,
                           LAMBDA p : p.kind = "addFileToOption" /\ p.optionId = id,
                           LAMBDA m : "detached")
    /\ last' = Call("deleteSpecialOption", [NoArgs EXCEPT !.optionId = id], FALSE)
    /\ UNCHANGED <<users, customers, fileDB, deleting>>

\* updates: Partial<SpecialOption> giving name and / or details
updateSpecialOption(id, updates) ==
    /\ specialOptions' = [i \in DOMAIN specialOptions |->
                             IF specialOptions[i].id = id
                             THEN [specialOptions[i] EXCEPT
                                      !.name = Given(updates.name, specialOptions[i].name),
                                      !.details =
                                          Given(updates.details, specialOptions[i].details)]
                             ELSE specialOptions[i]]
    /\ localStorage' = saveOptions(localStorage, specialOptions')
    /\ pending' = Retarget(pending,
                           LAMBDA p : p.kind = "addFileToOption" /\ p.optionId = id,
                           LAMBDA m : IF m = "attached" THEN "shared" ELSE m)
    /\ last' = Call("updateSpecialOption", [NoArgs EXCEPT !.optionId = id], FALSE)
    /\ UNCHANGED <<users, customers, fileDB, deleting>>

\* addFileToOption up to its await: the lookup and the "Option not found" throw
addFileToOption(optionId, file) ==
    LET args == [NoArgs EXCEPT !.optionId = optionId] IN
    IF OptionIndex(specialOptions, optionId) = 0
    THEN /\ last' = Call("addFileToOption", args, TRUE)
         /\ UNCHANGED <<users, customers, specialOptions, localStorage, fileDB, pending,
                        deleting>>
    ELSE /\ Len(pending) < MaxPending
         /\ pending' = Append(pending, Upload("addFileToOption", 0, 0, optionId, file))
         /\ UNCHANGED <<users, customers, specialOptions, localStorage, fileDB, deleting,
                        last>>

\* addFileToOption after its await
addFileToOptionResume(i) ==
    LET p == pending[i]
        newFile == [id |-> nextId, name |-> p.file.name, type |-> p.file.type]
        args == [NoArgs EXCEPT !.optionId = p.optionId, !.fileId = nextId]
    IN
    /\ p.kind = "addFileToOption"
    /\ nextId <= MaxId
    /\ fileDB' = fileDB \cup {nextId}
    /\ pending' = Without(pending, i)
    /\ specialOptions' =
           IF p.mode = "detached" THEN specialOptions
           ELSE [specialOptions EXCEPT
                    ![OptionIndex(specialOptions, p.optionId)].files = Append(@, newFile)]
    /\ localStorage' = saveOptions(localStorage, specialOptions')
    /\ last' = Call("addFileToOption", args, FALSE)
    /\ UNCHANGED <<users, customers, deleting>>

deleteFileFromOption(optionId, fileId) ==
    LET args == [NoArgs EXCEPT !.optionId = optionId, !.fileId = fileId]
        oi == OptionIndex(specialOptions, optionId)
    IN
    /\ last' = Call("deleteFileFromOption", args, FALSE)
    /\ IF oi # 0
       THEN /\ specialOptions' = [specialOptions EXCEPT ![oi].files =
                                     SelectSeq(@, LAMBDA f : f.id # fileId)]
            /\ localStorage' = saveOptions(localStorage, specialOptions')
            /\ pending' = Retarget(pending,
                              LAMBDA p : p.kind = "addFileToOption" /\ p.optionId = optionId,
                              LAMBDA m : IF m = "shared" THEN "detached" ELSE m)
            /\ deleting' = deleting \cup {fileId}
       ELSE UNCHANGED <<specialOptions, localStorage, pending, deleting>>
    /\ UNCHANGED <<users, customers, fileDB>>


----------------------------------------------------------------------------
(* Data import: parseCSV *)

\* column names read by importData
hCustomerName ==
    <<"C","u","s","t","o","m","e","r","N","a","m","e">>
hCustomerNotes ==
    <<"C","u","s","t","o","m","e","r","N","o","t","e","s">>
hSiteName ==
    <<"S","i","t","e","N","a","m","e">>
hSiteGeneralInfo ==
    <<"S","i","t","e","G","e","n","e","r","a","l","I","n","f","o">>
hOrderPart ==
    <<"O","r","d","e","r","P","a","r","t">>
hOrderNumber ==
    <<"O","r","d","e","r","N","u","m","b","e","r">>
hOrderStatus ==
    <<"O","r","d","e","r","S","t","a","t","u","s">>
hOrderCreationDate ==
    <<"O","r","d","e","r","C","r","e","a","t","i","o","n","D","a","t","e">>
hOrderAssignedUser ==
    <<"O","r","d","e","r","A","s","s","i","g","n","e","d","U","s","e","r">>
hOrderNotes ==
    <<"O","r","d","e","r","N","o","t","e","s">>
hUserRole ==
    <<"U","s","e","r","R","o","l","e">>

\* s.split(sep) for a one-character separator
RECURSIVE split(_, _)
split(s, sep) ==
    LET i == FirstIndex(s, LAMBDA c : c = sep) IN
    IF i = 0 THEN <<s>>
    ELSE <<SubSeq(s, 1, i - 1)>> \o split(SubSeq(s, i + 1, Len(s)), sep)

\* h.trim().replace(/^\uFEFF/, '')
HeaderName(h) ==
    LET t == trim(h) IN IF t # <<>> /\ Head(t) = BOM THEN Tail(t) ELSE t

\* the character loop with every comma taken as the end of a field
RECURSIVE ParseLineAtEveryComma(_, _, _, _, _)
ParseLineAtEveryComma(line, j, row, currentField, inQuotes) ==
    IF j > Len(line) THEN Append(row, currentField)
    ELSE IF line[j] = "\""
         THEN IF inQuotes /\ j + 1 <= Len(line) /\ line[j + 1] = "\""
              THEN ParseLineAtEveryComma(line, j + 2, row, Append(currentField, "\""),
                                         inQuotes)
              ELSE ParseLineAtEveryComma(line, j + 1, row, currentField, ~inQuotes)
    ELSE IF line[j] = ","
         THEN ParseLineAtEveryComma(line, j + 1, Append(row, currentField), <<>>, inQuotes)
    ELSE ParseLineAtEveryComma(line, j + 1, row, Append(currentField, line[j]), inQuotes)
\* the character loop of parseCSV over one line, from position j
RECURSIVE ParseLine(_, _, _, _, _)
ParseLine(line, j, row, currentField, inQuotes) ==
    IF j > Len(line) THEN Append(row, currentField)
    ELSE IF line[j] = "\""
         THEN IF inQuotes /\ j + 1 <= Len(line) /\ line[j + 1] = "\""
              THEN ParseLine(line, j + 2, row, Append(currentField, "\""), inQuotes)
              ELSE ParseLine(line, j + 1, row, currentField, ~inQuotes)
    ELSE IF line[j] = "," /\ ~inQuotes
         THEN ParseLine(line, j + 1, Append(row, currentField), <<>>, inQuotes)
    ELSE ParseLine(line, j + 1, row, Append(currentField, line[j]), inQuotes)

\* rowObject: header -> trimmed value, '' for a missing or empty field; the
\* columns are assigned from the first to the last, so that of two columns with
\* the same header the later one is kept
RECURSIVE RowObject(_, _, _)
RowObject(headers, row, index) ==
    IF index > Len(headers) THEN <<>>
    ELSE RowObject(headers, row, index + 1)
         @@ (headers[index] :>
                IF index <= Len(row) /\ row[index] # <<>> THEN trim(row[index]) ELSE <<>>)

\* the loop over the lines without its test for a blank line
RECURSIVE ParseLinesKeepingBlank(_, _, _)
ParseLinesKeepingBlank(headers, lines, i) ==
    IF i > Len(lines) THEN <<>>
    ELSE <<RowObject(headers, ParseLine(lines[i], 1, <<>>, <<>>, FALSE), 1)>>
         \o ParseLinesKeepingBlank(headers, lines, i + 1)
\* the loop of parseCSV over the lines after the header, from line i
RECURSIVE ParseLines(_, _, _)
ParseLines(headers, lines, i) ==
    IF i > Len(lines) THEN <<>>
    ELSE IF trim(lines[i]) = <<>> THEN ParseLines(headers, lines, i + 1)
    ELSE <<RowObject(headers, ParseLine(lines[i], 1, <<>>, <<>>, FALSE), 1)>>
         \o ParseLines(headers, lines, i + 1)

parseCSV(csvText) ==
    LET lines == split(SelectSeq(csvText, LAMBDA c : c # "\r"), "\n")
        headers == Map(HeaderName, split(lines[1], ","))
    IN ParseLines(headers, lines, 2)

\* row.Column of the destructuring: undefined (falsy, here '') when the file has
\* no such column
Field(row, h) == IF h \in DOMAIN row THEN row[h] ELSE <<>>


----------------------------------------------------------------------------
(* Data import: parseFrenchDateString *)

Digits == <<"0","1","2","3","4","5","6","7","8","9">>
IsDigit(c) == \E i \in DOMAIN Digits : Digits[i] = c
DigitValue(c) == (CHOOSE i \in DOMAIN Digits : Digits[i] = c) - 1

\* parseInt(s, 10) of a string of digits
RECURSIVE parseInt(_)
parseInt(s) ==
    IF s = <<>> THEN 0 ELSE 10 * parseInt(SubSeq(s, 1, Len(s) - 1)) + DigitValue(s[Len(s)])

AllDigits(s) == \A i \in DOMAIN s : IsDigit(s[i])

\* dateString.replace(',', ''): the first comma only
RemoveFirstComma(s) ==
    LET i == FirstIndex(s, LAMBDA c : c = ",") IN
    IF i = 0 THEN s ELSE SubSeq(s, 1, i - 1) \o SubSeq(s, i + 1, Len(s))

\* /^(\d{2})\/(\d{2})\/(\d{4})(?: (\d{2}):(\d{2}):(\d{2}))?$/
MatchesDate(s) ==
    /\ Len(s) \in {10, 19}
    /\ AllDigits(SubSeq(s, 1, 2)) /\ s[3] = "/"
    /\ AllDigits(SubSeq(s, 4, 5)) /\ s[6] = "/"
    /\ AllDigits(SubSeq(s, 7, 10))
    /\ Len(s) = 19 =>
          /\ s[11] = " "
          /\ AllDigits(SubSeq(s, 12, 13)) /\ s[14] = ":"
          /\ AllDigits(SubSeq(s, 15, 16)) /\ s[17] = ":"
          /\ AllDigits(SubSeq(s, 18, 19))

IsLeapYear(y) == (y % 4 = 0 /\ y % 100 # 0) \/ y % 400 = 0

\* days of month m0 (0-based, as in Date) of year y
DaysInMonth(y, m0) ==
    IF m0 = 1 THEN (IF IsLeapYear(y) THEN 29 ELSE 28)
    ELSE IF m0 \in {3, 5, 8, 10} THEN 30 ELSE 31

\* the calendar's normalisation of a day number outside its month
RECURSIVE RollDays(_, _, _)
RollDays(y, m0, d) ==
    IF d < 1
    THEN LET py == IF m0 = 0 THEN y - 1 ELSE y
             pm == IF m0 = 0 THEN 11 ELSE m0 - 1
         IN RollDays(py, pm, d + DaysInMonth(py, pm))
    ELSE IF d > DaysInMonth(y, m0)
    THEN RollDays(IF m0 = 11 THEN y + 1 ELSE y, IF m0 = 11 THEN 0 ELSE m0 + 1,
                  d - DaysInMonth(y, m0))
    ELSE [year |-> y, month |-> m0, date |-> d]

\* the Date of calendar day ymd, rest seconds after midnight
DateAt(ymd, rest) ==
    [year |-> ymd.year, month |-> ymd.month, date |-> ymd.date,
     hours |-> rest \div 3600, minutes |-> (rest % 3600) \div 60, seconds |-> rest % 60]

\* the Date secs seconds after midnight of day `day` of month m1 of year y1
DateFrom(y1, m1, day, secs) ==
    DateAt(RollDays(y1, m1, day + (secs \div 86400)), secs % 86400)

\* new Date(year, monthIndex, day, hours, minutes, seconds) in local time (no
\* daylight-saving gap): a year 0..99 means 1900 + year, and every component out
\* of range carries into the next larger one
NewDate(year, monthIndex, day, hours, minutes, seconds) ==
    DateFrom((IF year \in 0..99 THEN 1900 + year ELSE year) + (monthIndex \div 12),
             monthIndex % 12, day, hours * 3600 + minutes * 60 + seconds)

\* a calendar date of the proleptic Gregorian calendar, None when out of range
CalendarDate(year, month, day) ==
    IF month \in 1..12 /\ day \in 1..DaysInMonth(year, month - 1)
    THEN Some([year |-> year, month |-> month - 1, date |-> day, hours |-> 0,
               minutes |-> 0, seconds |-> 0])
    ELSE None

\* new Date(dateString) of the fallback, for the date form ECMAScript defines
\* ("yyyy-mm-dd"); any other string is taken as unparsable (NaN)
FallbackDate(s) ==
    IF /\ Len(s) = 10
       /\ AllDigits(SubSeq(s, 1, 4)) /\ s[5] = "-"
       /\ AllDigits(SubSeq(s, 6, 7)) /\ s[8] = "-"
       /\ AllDigits(SubSeq(s, 9, 10))
    THEN CalendarDate(parseInt(SubSeq(s, 1, 4)), parseInt(SubSeq(s, 6, 7)),
                      parseInt(SubSeq(s, 9, 10)))
    ELSE None

\* the check of the constructed date against the parsed components
CheckedDate(date, year, monthIndex, day) ==
    IF date.year # year \/ date.month # monthIndex \/ date.date # day
    THEN None
    ELSE Some(date)

\* the components of a string that matches the pattern, made into a date
DateOfParts(day, month, year, hours, minutes, seconds) ==
    CheckedDate(NewDate(year, month - 1, day, hours, minutes, seconds), year, month - 1, day)

\* parts[4] ? parseInt(parts[4], 10) : 0
TimePart(s, from, to) == IF Len(s) = 19 THEN parseInt(SubSeq(s, from, to)) ELSE 0

\* parseFrenchDateString after the comma is removed
ParseCleaned(dateString, cleanedDateString) ==
    IF ~MatchesDate(cleanedDateString) THEN FallbackDate(dateString)
    ELSE DateOfParts(parseInt(SubSeq(cleanedDateString, 1, 2)),
                     parseInt(SubSeq(cleanedDateString, 4, 5)),
                     parseInt(SubSeq(cleanedDateString, 7, 10)),
                     TimePart(cleanedDateString, 12, 13),
                     TimePart(cleanedDateString, 15, 16),
                     TimePart(cleanedDateString, 18, 19))

\* None for null, Some(date) otherwise
parseFrenchDateString(dateString) ==
    IF dateString = <<>> THEN None
    ELSE ParseCleaned(dateString, RemoveFirstComma(dateString))

----------------------------------------------------------------------------
(* Inputs of the calls *)

\* the values new Date() takes
Clock == {[year |-> 2026, month |-> 10, date |-> 4, hours |-> 12, minutes |-> 0,
           seconds |-> 0]}

RECURSIVE Join(_, _)
Join(parts, sep) ==
    IF parts = <<>> THEN <<>>
    ELSE IF Len(parts) = 1 THEN parts[1]
    ELSE parts[1] \o sep \o Join(Tail(parts), sep)

\* the header line naming every column importData reads, in this order
HeaderLine ==
    Join(<<hCustomerName, hCustomerNotes, hSiteName, hSiteGeneralInfo, hOrderPart,
           hOrderNumber, hOrderStatus, hOrderCreationDate, hOrderAssignedUser, hOrderNotes,
           hUserRole>>, <<",">>)

\* a data line from its eleven field texts
DataLine(fields) == Join(fields, <<",">>)

\* a file: the header line, then the data lines
CsvFile(dataLines) == Join(<<HeaderLine>> \o dataLines, <<"\n">>)

\* short texts used as names, numbers and notes
tAB == <<"a"," ","b">>
tABupper == <<"A"," ","B">>
tAdotB == <<"a",".","b">>
tBo == <<"B","o">>
tC == <<"C">>
tClower == <<"c">>
tS == <<"S">>
tSlower == <<"s">>
tN1 == <<"N","1">>
tN2 == <<"N","2">>
tF1 == <<"F","1">>
tF2 == <<"F","2">>
tHuisseries == <<"H","u","i","s","s","e","r","i","e","s">>
tPortes == <<"P","O","R","T","E","S">>
tadmin == <<"a","d","m","i","n">>
tboss == <<"b","o","s","s">>

\* the files given to importData by the user operations' specification
UserCsvs ==
    {CsvFile(<<DataLine(<<tC, <<>>, <<>>, <<>>, <<>>, <<>>, <<>>, <<>>, tABupper, <<>>, <<>>>>)>>),
     CsvFile(<<DataLine(<<tC, <<>>, <<>>, <<>>, <<>>, <<>>, <<>>, <<>>, tAB, <<>>, <<>>>>),
               DataLine(<<tC, <<>>, <<>>, <<>>, <<>>, <<>>, <<>>, <<>>, tAdotB, <<>>, <<>>>>)>>),
     CsvFile(<<>>)}

\* a data line with the order fields only: customer, site, part, number, user
OrderLine(CustomerName, SiteName, OrderPart, OrderNumber, OrderAssignedUser) ==
    DataLine(<<CustomerName, <<>>, SiteName, <<>>, OrderPart, OrderNumber, <<>>, <<>>,
               OrderAssignedUser, <<>>, <<>>>>)

\* the files given to importData by the order operations' specification
OrderCsvs ==
    {CsvFile(<<OrderLine(tC, tS, tHuisseries, tF1, sTaoufik)>>),
     CsvFile(<<OrderLine(tC, tS, tHuisseries, tF1, sTaoufik),
               OrderLine(tClower, tSlower, tHuisseries, tF1, sTaoufik),
               OrderLine(tC, tS, tPortes, tF1, tAB)>>)}

tDate == <<"3","1","/","1","2","/","2","0","2","5">>

\* the files given to importData by the import's specification: the first names
\* a new user under a role that is no role, spells customer, site and user in
\* two letter cases and ends with a row without CustomerName; the second gives
\* an empty, a first and a second text for the notes and the general info and
\* ends with a row without CustomerName too
ImportCsvs ==
    {CsvFile(<<DataLine(<<tC, tN1, tS, tN1, tHuisseries, tF1, <<>>, tDate, tAB, <<>>, tboss>>),
               DataLine(<<tClower, tN2, tSlower, tN2, tPortes, tF1, <<>>, <<>>, tABupper, <<>>,
                          tadmin>>),
               DataLine(<<<<>>, tN2, tS, <<>>, tHuisseries, tF2, <<>>, <<>>, tBo, <<>>, <<>>>>)>>),
     CsvFile(<<DataLine(<<tC, <<>>, tS, <<>>, <<>>, <<>>, <<>>, <<>>, <<>>, <<>>, <<>>>>),
               DataLine(<<tClower, tN1, tSlower, tN1, <<>>, <<>>, <<>>, <<>>, <<>>, <<>>, <<>>>>),
               DataLine(<<tC, tN2, tS, tN2, <<>>, <<>>, <<>>, <<>>, <<>>, <<>>, <<>>>>),
               DataLine(<<<<>>, tN2, tS, tN2, <<>>, <<>>, <<>>, <<>>, tBo, <<>>, tadmin>>)>>)}

\* the file given to importData by the specification of the whole API
ApiCsvs == {CsvFile(<<OrderLine(tC, tS, tHuisseries, tF1, sTaoufik)>>)}

\* the texts without a data row: the empty text, the header line alone, the
\* header line and a line break, the header line and blank lines only
ZeroRowCsvs ==
    {<<>>, HeaderLine, HeaderLine \o <<"\n">>,
     CsvFile(<<<<>>, <<" ">>, <<" ", "\r">>>>)}

\* a number below 100 in two digits, a number below 10000 in four
TwoDigits(n) == <<Digits[(n \div 10) + 1], Digits[(n % 10) + 1]>>
FourDigits(n) == TwoDigits(n \div 100) \o TwoDigits(n % 100)

\* "dd/mm/yyyy" and "hh:mm:ss" from their numbers
DateText(day, month, year) ==
    TwoDigits(day) \o <<"/">> \o TwoDigits(month) \o <<"/">> \o FourDigits(year)
TimeText(hours, minutes, seconds) ==
    TwoDigits(hours) \o <<":">> \o TwoDigits(minutes) \o <<":">> \o TwoDigits(seconds)

\* the dates without a time: days and months in and around their ranges, a leap
\* and a common year, a year below 100
DayTexts ==
    {DateText(day, month, year) :
        day \in {0, 28, 29, 30, 31, 32}, month \in {0, 2, 4, 12, 13},
        year \in {50, 2024, 2025}}

\* the dates with a time, after a space or a comma and a space: hours, minutes
\* and seconds in and beyond their ranges, on a day in the year and on its last
TimedTexts ==
    {DateText(ymd[1], ymd[2], ymd[3]) \o sep \o TimeText(hours, minutes, seconds) :
        ymd \in {<<23, 10, 2025>>, <<31, 12, 2025>>}, sep \in {<<" ">>, <<",", " ">>},
        hours \in {14, 23, 24}, minutes \in {30, 59, 60}, seconds \in {0, 60}}

\* texts that do not match the pattern: an ISO date, a date with a one-digit
\* day, a word
OtherDateTexts ==
    {<<"2","0","2","5","-","1","0","-","2","3">>, <<"1","/","0","2","/","2","0","2","5">>,
     <<"h","i","e","r">>}

\* the texts given as OrderCreationDate
DateStrings == DayTexts \cup TimedTexts \cup OtherDateTexts

\* a file of one row: an order of customer C, site S, created at dateString
DateCsv(dateString) ==
    CsvFile(<<DataLine(<<tC, <<>>, tS, <<>>, tHuisseries, tF1, <<>>, dateString, sTaoufik,
                         <<>>, <<>>>>)>>)

\* the files given to importData by the specification of the dates
DateCsvs == {DateCsv(dateString) : dateString \in DateStrings}

\* the texts of one field: plain, padded with spaces, quoted and empty, quoted
\* with a comma and a doubled quote, with an opening quote only, with a closing
\* quote only, a quoted quote, empty
tQuotedABC == <<"\"","a",",","b","\"","\"","c","\"">>
FieldTexts ==
    {<<"a">>, <<" ","a"," ">>, <<"\"","\"">>, tQuotedABC, <<"\"","a">>, <<"b","\"">>,
     <<"\"","\"","\"","\"">>, <<>>}

\* the data lines of one to MaxFields of these fields joined by commas, the blank
\* ones left out
QuotedLines ==
    {line \in {Join(fields, <<",">>) :
                  fields \in UNION {[1..n -> FieldTexts] : n \in 1..MaxFields}} :
        trim(line) # <<>>}

\* the files given to importData by the specification of the quoting: the
\* header line and one data line
QuotedCsvs == {CsvFile(<<line>>) : line \in QuotedLines}

\* the files given to importData in more than one state
CsvInputs == UserCsvs \cup OrderCsvs \cup ImportCsvs \cup ApiCsvs \cup ZeroRowCsvs

----------------------------------------------------------------------------
(* Data import: importData *)


\* a role taken from any non-blank UserRole, valid or not
ImportedRoleUnchecked(UserRole) ==
    LET providedRole == trim(UserRole)
        formattedRole == toUpperCase(SubSeq(providedRole, 1, 1))
                         \o toLowerCase(SubSeq(providedRole, 2, Len(providedRole)))
    IN IF providedRole # <<>> THEN formattedRole ELSE sViewer

\* the role of a synthesized user: UserRole trimmed, its first letter upper-cased
\* and the rest lower-cased, kept when it is a valid role, 'Viewer' otherwise
ImportedRole(UserRole) ==
    LET providedRole == trim(UserRole)
        formattedRole == toUpperCase(SubSeq(providedRole, 1, 1))
                         \o toLowerCase(SubSeq(providedRole, 2, Len(providedRole)))
    IN IF providedRole # <<>> /\ formattedRole \in validRoles THEN formattedRole
       ELSE sViewer

\* `${OrderAssignedUser.toLowerCase().replace(/\s/g, '.')}@example.com`
ImportedEmail(OrderAssignedUser) ==
    DotSpaces(toLowerCase(OrderAssignedUser)) \o ExampleDotCom

\* users.find(u => u.name.toLowerCase() === OrderAssignedUser.toLowerCase())
FindUserByName(us, OrderAssignedUser) ==
    FirstIndex(us, LAMBDA u : toLowerCase(u.name) = toLowerCase(OrderAssignedUser))


\* a customer lookup that compares the names as they are spelled
FindCustomerByExactName(cs, CustomerName) ==
    FirstIndex(cs, LAMBDA c : c.name = CustomerName)

\* customers.find(c => c.name.toLowerCase() === CustomerName.toLowerCase())
FindCustomerByName(cs, CustomerName) ==
    FirstIndex(cs, LAMBDA c : toLowerCase(c.name) = toLowerCase(CustomerName))

\* customer.sites.find(s => s.name.toLowerCase() === SiteName.toLowerCase())
FindSiteByName(sites, SiteName) ==
    FirstIndex(sites, LAMBDA t : toLowerCase(t.name) = toLowerCase(SiteName))


\* notes replaced by any non-empty CustomerNotes
OverwriteNotes(notes, CustomerNotes) ==
    IF CustomerNotes # <<>> THEN CustomerNotes ELSE notes

\* if (CustomerNotes && !customer.notes) customer.notes = CustomerNotes
BackfillNotes(notes, CustomerNotes) ==
    IF CustomerNotes # <<>> /\ notes = <<>> THEN CustomerNotes ELSE notes

\* if (SiteGeneralInfo && !site.generalInfo) site.generalInfo = SiteGeneralInfo
BackfillGeneralInfo(generalInfo, SiteGeneralInfo) ==
    IF SiteGeneralInfo # <<>> /\ generalInfo = <<>> THEN SiteGeneralInfo ELSE generalInfo

\* 'frames', 'doors' or "" for null
PartType(OrderPart) ==
    IF toLowerCase(OrderPart) = sHuisseries THEN "frames"
    ELSE IF toLowerCase(OrderPart) = sPortes THEN "doors"
    ELSE ""


\* a duplicate check that looks at the part type only when the site has one order
orderExistsInFirst(site, partType, OrderNumber) ==
    /\ Len(site.orders) = 1
    /\ PartOf(site.orders[1], partType) # None
    /\ PartOf(site.orders[1], partType)[1].number = OrderNumber

\* site.orders.some(o => { const part = o[partType]; return part && part.number === OrderNumber })
orderExists(site, partType, OrderNumber) ==
    \E i \in DOMAIN site.orders :
        /\ PartOf(site.orders[i], partType) # None
        /\ PartOf(site.orders[i], partType)[1].number = OrderNumber


\* a row is skipped only when it names neither a customer nor a user
SkipsRowWithoutUser(row) ==
    Field(row, hCustomerName) = <<>> /\ Field(row, hOrderAssignedUser) = <<>>

\* if (!CustomerName) return
SkipsRow(row) == Field(row, hCustomerName) = <<>>

\* steps 2 of a row: the assigned user is looked up by name or synthesized
\* st: [users, customers, used], used being the ids randomUUID may not return;
\* the result adds user, None when undefined
RowUser(st, row) ==
    LET OrderAssignedUser == Field(row, hOrderAssignedUser)
        ui == FindUserByName(st.users, OrderAssignedUser)
        newUser == [id |-> randomUUID(st.used), name |-> OrderAssignedUser,
                    email |-> ImportedEmail(OrderAssignedUser),
                    role |-> ImportedRole(Field(row, hUserRole)),
                    password |-> sPassword]
    IN IF OrderAssignedUser = <<>> THEN [st |-> st, user |-> None]
       ELSE IF ui # 0 THEN [st |-> st, user |-> Some(st.users[ui])]
       ELSE [st |-> [st EXCEPT !.users = Append(@, newUser), !.used = @ \cup {randomUUID(st.used)}],
             user |-> Some(newUser)]

\* step 3: the customer is found by name (notes backfilled) or created;
\* the result adds ci, the customer's index
RowCustomer(st, row) ==
    LET CustomerName == Field(row, hCustomerName)
        CustomerNotes == Field(row, hCustomerNotes)
        ci == FindCustomerByName(st.customers, CustomerName)
    IN IF ci = 0
       THEN [st |-> [st EXCEPT
                        !.customers = Append(@, [id |-> randomUUID(st.used), name |-> CustomerName,
                                                 sites |-> <<>>, notes |-> CustomerNotes]),
                        !.used = @ \cup {randomUUID(st.used)}],
             ci |-> Len(st.customers) + 1]
       ELSE [st |-> [st EXCEPT !.customers[ci].notes = BackfillNotes(@, CustomerNotes)],
             ci |-> ci]

\* step 5: the site is found by name within customer ci (general info
\* backfilled) or created; the result adds si, the site's index
RowSite(st, ci, row) ==
    LET SiteName == Field(row, hSiteName)
        SiteGeneralInfo == Field(row, hSiteGeneralInfo)
        si == FindSiteByName(st.customers[ci].sites, SiteName)
    IN IF si = 0
       THEN [st |-> [st EXCEPT
                        !.customers[ci].sites =
                            Append(@, [id |-> randomUUID(st.used), name |-> SiteName,
                                       generalInfo |-> SiteGeneralInfo,
                                       generalInfoFiles |-> <<>>, orders |-> <<>>]),
                        !.used = @ \cup {randomUUID(st.used)}],
             si |-> Len(st.customers[ci].sites) + 1]
       ELSE [st |-> [st EXCEPT !.customers[ci].sites[si].generalInfo =
                                   BackfillGeneralInfo(@, SiteGeneralInfo)],
             si |-> si]

\* const parsedDate = OrderCreationDate ? parseFrenchDateString(OrderCreationDate) : null
ParsedDate(OrderCreationDate) ==
    IF OrderCreationDate # <<>> THEN parseFrenchDateString(OrderCreationDate) ELSE None

\* Date.prototype.getTimezoneOffset of the runtime, in minutes: UTC minus local
\* time, here that of a clock one hour ahead of UTC
getTimezoneOffset == -60

\* date.toISOString(): the components of the local date in UTC
toISOString(date) ==
    DateFrom(date.year, date.month, date.date,
             date.hours * 3600 + date.minutes * 60 + date.seconds + getTimezoneOffset * 60)

\* parsedDate ? parsedDate.toISOString() : new Date().toISOString()
CreationDateISO(parsedDate, now) ==
    IF parsedDate # None THEN toISOString(parsedDate[1]) ELSE now

\* newOrderPart
ImportedPart(row, user, creationDateISO) ==
    NewPart(Field(row, hOrderNumber), Field(row, hOrderStatus) = sEnvoyee, creationDateISO,
            user, Field(row, hOrderNotes))

\* an order holding the part under both part types
ImportedOrderInBothParts(id, partType, newOrderPart) ==
    [id |-> id, frames |-> Some(newOrderPart), doors |-> Some(newOrderPart)]
\* newOrder
ImportedOrder(id, partType, newOrderPart) ==
    [id |-> id,
     frames |-> IF partType = "frames" THEN Some(newOrderPart) ELSE None,
     doors |-> IF partType = "doors" THEN Some(newOrderPart) ELSE None]

\* site.orders.push(newOrder)
PushOrder(st, ci, si, newOrder) ==
    [st EXCEPT !.customers[ci].sites[si].orders = Append(@, newOrder),
               !.used = @ \cup {newOrder.id}]

\* steps 6 to 10: the order part of the row is appended to site (ci, si) unless
\* a field is missing, the part type is unknown or the number is already there
RowOrder(st, ci, si, user, row, now) ==
    IF Field(row, hOrderPart) = <<>> \/ Field(row, hOrderNumber) = <<>> \/ user = None
    THEN st
    ELSE IF PartType(Field(row, hOrderPart)) = "" THEN st
    ELSE IF orderExists(st.customers[ci].sites[si], PartType(Field(row, hOrderPart)),
                        Field(row, hOrderNumber))
    THEN st
    ELSE PushOrder(st, ci, si,
             ImportedOrder(randomUUID(st.used), PartType(Field(row, hOrderPart)),
                 ImportedPart(row, user[1],
                     CreationDateISO(ParsedDate(Field(row, hOrderCreationDate)), now))))

\* the row from the site on; t: the result of RowSite
RowFromSite(t, ci, user, row, now) == RowOrder(t.st, ci, t.si, user, row, now)

\* the row from the customer on; c: the result of RowCustomer
RowFromCustomer(c, user, row, now) ==
    IF Field(row, hSiteName) = <<>> THEN c.st
    ELSE RowFromSite(RowSite(c.st, c.ci, row), c.ci, user, row, now)

\* the row from the assigned user on; u: the result of RowUser
RowFromUser(u, row, now) == RowFromCustomer(RowCustomer(u.st, row), u.user, row, now)

\* the callback of parsedData.forEach
importRow(st, row, now) ==
    IF SkipsRow(row) THEN st ELSE RowFromUser(RowUser(st, row), row, now)

\* the states of parsedData.forEach: before the first row, then after each row
RECURSIVE ImportTrace(_, _, _, _)
ImportTrace(st, rows, i, now) ==
    IF i > Len(rows) THEN <<st>>
    ELSE <<st>> \o ImportTrace(importRow(st, rows[i], now), rows, i + 1, now)

\* parseCSV of the files of CsvInputs, computed once
RECURSIVE ParsedFrom(_)
ParsedFrom(texts) ==
    IF texts = {} THEN <<>>
    ELSE LET csvText == CHOOSE t \in texts : TRUE IN
         (csvText :> parseCSV(csvText)) @@ ParsedFrom(texts \ {csvText})
ParsedInputs == ParsedFrom(CsvInputs)

\* const parsedData = parseCSV(csvString)
ParsedData(csvString) ==
    IF csvString \in CsvInputs THEN ParsedInputs[csvString] ELSE parseCSV(csvString)

\* the end of importData: end is the state after the last row
ImportSave(args, parsedData, trace, end) ==
    /\ \A id \in end.used : id <= MaxId
    /\ users' = end.users
    /\ customers' = end.customers
    /\ localStorage' = saveUsers(saveCustomers(localStorage, customers'), users')
    /\ last' = [Call("importData", args, FALSE) EXCEPT !.csv = parsedData, !.trace = trace]
    /\ UNCHANGED <<specialOptions, fileDB, pending, deleting>>

\* the rows have been processed: trace ends with the state to commit
ImportRows(args, parsedData, trace) ==
    ImportSave(args, parsedData, trace, trace[Len(trace)])

\* importData after parseCSV: the throw on an empty result, else the rows
ImportParsed(args, parsedData, now) ==
    IF Len(parsedData) = 0
    THEN /\ last' = Call("importData", args, TRUE)
         /\ UNCHANGED <<users, customers, specialOptions, localStorage, fileDB, pending,
                        deleting>>
    ELSE ImportRows(args, parsedData,
                    ImportTrace([users |-> users, customers |-> customers, used |-> UsedIds],
                                parsedData, 1, now))

\* now: the value of new Date().toISOString() during the call
importData(csvString, now) ==
    ImportParsed([NoArgs EXCEPT !.csvString = csvString], ParsedData(csvString), now)

----------------------------------------------------------------------------
(* Specification of the user operations *)

UserNames == {tAB}
UserEmails == {tAdotB \o ExampleDotCom, toLowerCase(tBo) \o ExampleDotCom}
UserIds == {-3, 1}
NoUserUpdates == [name |-> None, email |-> None, role |-> None, password |-> None]
UserUpdates ==
    {[NoUserUpdates EXCEPT !.name = Some(tABupper)],
     [NoUserUpdates EXCEPT !.email = Some(toLowerCase(tBo) \o ExampleDotCom)]}
NextUsers ==
    \/ \E name \in UserNames, email \in UserEmails : addUser(name, email, sPassword, sEditor)
    \/ \E name \in UserNames, email \in UserEmails : signup(name, email, sPassword)
    \/ \E id \in UserIds, updates \in UserUpdates : updateUser(id, updates)
    \/ \E id \in UserIds : deleteUser(id)
    \/ \E csvString \in UserCsvs \cup ZeroRowCsvs, now \in Clock :
           importData(csvString, now)

SpecUsers == Init /\ [][NextUsers]_vars

----------------------------------------------------------------------------
(* Specification of the order operations *)

OrderCustomerIds == {1}
OrderSiteIds == {2}
OrderOrderIds == {3}
OrderParts == {"frames", "doors"}
NextOrders ==
    \/ addCustomer(tC)
    \/ \E customerId \in OrderCustomerIds : addSite(customerId, tS)
    \/ \E customerId \in OrderCustomerIds, siteId \in OrderSiteIds,
          doorsNumber \in {<<>>, tF1}, userId \in {-3}, now \in Clock :
           addOrder(customerId, siteId, tF1, doorsNumber, userId, now)
    \/ \E customerId \in OrderCustomerIds, siteId \in OrderSiteIds, orderId \in OrderOrderIds,
          part \in OrderParts :
           updateOrder(customerId, siteId, orderId, part, tF2)
    \/ \E customerId \in OrderCustomerIds, siteId \in OrderSiteIds, orderId \in OrderOrderIds,
          part \in OrderParts, userId \in {-2} :
           updateOrderUser(customerId, siteId, orderId, part, userId)
    \/ \E customerId \in OrderCustomerIds, siteId \in OrderSiteIds, orderId \in OrderOrderIds :
           deleteOrder(customerId, siteId, orderId)
    \/ deleteUser(-3)
    \/ \E csvString \in OrderCsvs, now \in Clock : importData(csvString, now)

SpecOrders == Init /\ [][NextOrders]_vars

----------------------------------------------------------------------------
(* Specification of the dates: imports of one dated order into an empty
   customer list *)

NextDates ==
    \E csvString \in DateCsvs, now \in Clock :
        customers = <<>> /\ importData(csvString, now)

SpecDates == Init /\ [][NextDates]_vars

----------------------------------------------------------------------------
(* Specification of the quoting: the first import after the module is loaded *)

NextQuoting ==
    \E csvString \in QuotedCsvs, now \in Clock :
        last = Loaded /\ importData(csvString, now)

SpecQuoting == Init /\ [][NextQuoting]_vars

----------------------------------------------------------------------------
(* Specification of the order parts: every operation on orders, on the orders
   of one site, in runs of MaxCalls calls *)

PartOrderIds == {3, 4}
NextParts ==
    \/ CallsLeft /\ addCustomer(tC)
    \/ CallsLeft /\ addSite(1, tS)
    \/ CallsLeft /\ \E framesNumber \in {<<>>, tF1}, doorsNumber \in {<<>>, tF2},
                        now \in Clock :
                         addOrder(1, 2, framesNumber, doorsNumber, -3, now)
    \/ CallsLeft /\ \E csvString \in OrderCsvs, now \in Clock : importData(csvString, now)
    \/ CallsLeft /\ \E orderId \in PartOrderIds, part \in OrderParts :
                         updateOrder(1, 2, orderId, part, tN1)
    \/ CallsLeft /\ \E orderId \in PartOrderIds, part \in OrderParts :
                         updateOrderUser(1, 2, orderId, part, -2)
    \/ CallsLeft /\ \E orderId \in PartOrderIds, part \in OrderParts :
                         updateOrderNotes(1, 2, orderId, part, tN2)
    \/ CallsLeft /\ \E orderId \in PartOrderIds, part \in OrderParts :
                         toggleOrderStatus(1, 2, orderId, part)
    \/ CallsLeft /\ \E orderId \in PartOrderIds : deleteOrder(1, 2, orderId)

SpecParts == Init /\ [][NextParts]_vars

----------------------------------------------------------------------------
(* Specification of the import *)

NoCustomerUpdates == [name |-> None, notes |-> None]
NoSiteUpdates == [name |-> None, generalInfo |-> None]
NextImport ==
    \/ addCustomer(tClower)
    \/ updateCustomer(1, [NoCustomerUpdates EXCEPT !.notes = Some(tN2)])
    \/ addSite(1, tSlower)
    \/ updateSite(1, 2, [NoSiteUpdates EXCEPT !.generalInfo = Some(tN2)])
    \/ \E now \in Clock : addOrder(1, 2, tF1, <<>>, -3, now)
    \/ \E csvString \in ImportCsvs, now \in Clock : importData(csvString, now)

SpecImport == Init /\ [][NextImport]_vars

----------------------------------------------------------------------------
(* Specification of the operations that save users or customers *)

ApiFile == [name |-> tN1, type |-> tN2]
NextPersist ==
    \/ CallsLeft /\ addUser(tAB, tAdotB \o ExampleDotCom, sPassword, sEditor)
    \/ CallsLeft /\ signup(tAB, tAdotB \o ExampleDotCom, sPassword)
    \/ CallsLeft /\ updateUser(-3, [NoUserUpdates EXCEPT !.name = Some(tBo)])
    \/ CallsLeft /\ deleteUser(-3)
    \/ CallsLeft /\ addCustomer(tC)
    \/ CallsLeft /\ updateCustomer(1, [NoCustomerUpdates EXCEPT !.notes = Some(tN1)])
    \/ CallsLeft /\ deleteCustomer(1)
    \/ CallsLeft /\ addSite(1, tS)
    \/ CallsLeft /\ updateSite(1, 2, [NoSiteUpdates EXCEPT !.generalInfo = Some(tN1)])
    \/ CallsLeft /\ deleteSite(1, 2)
    \/ CallsLeft /\ addFileToSite(1, 2, ApiFile)
    \/ \E i \in DOMAIN pending : addFileToSiteResume(i)
    \/ CallsLeft /\ deleteFileFromSite(1, 2, 3)
    \/ \E id \in deleting : deleteFileFromDB(id)
    \/ CallsLeft /\ \E now \in Clock : addOrder(1, 2, tF1, <<>>, -1, now)
    \/ CallsLeft /\ updateOrder(1, 2, 3, "frames", tF2)
    \/ CallsLeft /\ updateOrderUser(1, 2, 3, "frames", -2)
    \/ CallsLeft /\ updateOrderNotes(1, 2, 3, "frames", tN1)
    \/ CallsLeft /\ toggleOrderStatus(1, 2, 3, "frames")
    \/ CallsLeft /\ deleteOrder(1, 2, 3)
    \/ CallsLeft /\ \E csvString \in ApiCsvs, now \in Clock : importData(csvString, now)

SpecPersist == Init /\ [][NextPersist]_vars

----------------------------------------------------------------------------
(* Specification of the operations that address an entity by id *)

\* user 9 does not exist
NextParents ==
    \/ CallsLeft /\ addCustomer(tC)
    \/ CallsLeft /\ addSite(1, tS)
    \/ CallsLeft /\ updateSite(1, 2, [NoSiteUpdates EXCEPT !.generalInfo = Some(tN1)])
    \/ CallsLeft /\ deleteSite(1, 2)
    \/ CallsLeft /\ addFileToSite(1, 2, ApiFile)
    \/ \E i \in DOMAIN pending : addFileToSiteResume(i)
    \/ CallsLeft /\ deleteFileFromSite(1, 2, 3)
    \/ \E id \in deleting : deleteFileFromDB(id)
    \/ CallsLeft /\ \E userId \in {-1, 9}, now \in Clock : addOrder(1, 2, tF1, <<>>, userId, now)
    \/ CallsLeft /\ updateOrder(1, 2, 3, "frames", tF2)
    \/ CallsLeft /\ \E userId \in {-2, 9} : updateOrderUser(1, 2, 3, "frames", userId)
    \/ CallsLeft /\ updateOrderNotes(1, 2, 3, "frames", tN1)
    \/ CallsLeft /\ toggleOrderStatus(1, 2, 3, "frames")
    \/ CallsLeft /\ deleteOrder(1, 2, 3)
    \/ CallsLeft /\ \E csvString \in ApiCsvs, now \in Clock : importData(csvString, now)
    \/ CallsLeft /\ addSpecialOption(tN1)
    \/ CallsLeft /\ addFileToOption(1, ApiFile)
    \/ \E i \in DOMAIN pending : addFileToOptionResume(i)
    \/ CallsLeft /\ deleteFileFromOption(1, 2)

SpecParents == Init /\ [][NextParents]_vars

----------------------------------------------------------------------------
(* Specification of the uploads: addFileToSite, suspended while the blob is
   stored, among the operations on its customer and its site *)

NextUploads ==
    \/ CallsLeft /\ addCustomer(tC)
    \/ CallsLeft /\ addSite(1, tS)
    \/ CallsLeft /\ addFileToSite(1, 2, ApiFile)
    \/ \E i \in DOMAIN pending : addFileToSiteResume(i)
    \/ CallsLeft /\ updateSite(1, 2, [NoSiteUpdates EXCEPT !.generalInfo = Some(tN1)])
    \/ CallsLeft /\ \E fileId \in {3, 4} : deleteFileFromSite(1, 2, fileId)
    \/ \E id \in deleting : deleteFileFromDB(id)
    \/ CallsLeft /\ deleteSite(1, 2)
    \/ CallsLeft /\ deleteCustomer(1)

SpecUploads == Init /\ [][NextUploads]_vars

----------------------------------------------------------------------------
(* The claims *)

\* C1: in every state reachable by addUser, signup, updateUser, deleteUser and
\* importData from the seeded list, no two distinct users have the same name and
\* no two distinct users have the same e-mail, both compared case-insensitively
UsersUnique ==
    \A i, j \in DOMAIN users :
        i # j => /\ toLowerCase(users[i].name) # toLowerCase(users[j].name)
                 /\ toLowerCase(users[i].email) # toLowerCase(users[j].email)

\* the parts of the orders of every site of the customer tree cs
PartsIn(cs) ==
    UNION {UNION {UNION {{[customer |-> cs[ci].id, site |-> cs[ci].sites[si].id,
                           order |-> cs[ci].sites[si].orders[oi].id, part |-> part,
                           value |-> PartOf(cs[ci].sites[si].orders[oi], part)[1]] :
                              part \in {p \in {"frames", "doors"} :
                                           PartOf(cs[ci].sites[si].orders[oi], p) # None}} :
                         oi \in DOMAIN cs[ci].sites[si].orders} :
                  si \in DOMAIN cs[ci].sites} :
           ci \in DOMAIN cs}

\* C2: in every state reachable by addOrder, updateOrder, deleteOrder and
\* importData, within each site no two orders have a non-null part of the same
\* part type carrying the same part number
PartNumbersUnique ==
    \A p, q \in PartsIn(customers) :
        (/\ p.customer = q.customer /\ p.site = q.site /\ p.part = q.part
         /\ p.order # q.order)
            => p.value.number # q.value.number

\* the parts of the tree `after` that are not in the tree `before` with the same
\* user reference: the parts created or reassigned in between
Referring(before, after) ==
    {p \in PartsIn(after) :
        \A q \in PartsIn(before) :
            ~(/\ q.customer = p.customer /\ q.site = p.site /\ q.order = p.order
              /\ q.part = p.part /\ q.value.userId = p.value.userId
              /\ q.value.userName = p.value.userName)}

\* every part created or reassigned between the two trees names a user of us,
\* by its id and with its name
RefersToUsers(before, after, us) ==
    \A p \in Referring(before, after) :
        \E i \in DOMAIN us : /\ us[i].id = p.value.userId
                             /\ us[i].name = p.value.userName

\* C3: whenever an order part is created (by addOrder, or by a row of
\* importData) or reassigned (by updateOrderUser), its userId is the id of a user
\* that is in the user list at that moment and its userName is that user's name
\* at that moment
PartRefersToUser ==
    [][IF last'.op = "importData" /\ ~last'.thrown
       THEN \A i \in 1..(Len(last'.trace) - 1) :
                RefersToUsers(last'.trace[i].customers, last'.trace[i + 1].customers,
                              last'.trace[i + 1].users)
       ELSE RefersToUsers(customers, customers', users')]_vars

\* an order part was reassigned to the editor by updateOrderUser while another
\* part, created by a row of importData, names the user that row synthesized
PartRefersToUserWitness ==
    /\ last.op = "updateOrderUser"
    /\ \E p \in PartsIn(customers) : p.order = last.args.orderId /\ p.value.userId = -2
    /\ \E p \in PartsIn(customers) : p.value.userName = tAB
\* the last call was an importData that ran through its rows
ImportDone == last.op = "importData" /\ ~last.thrown

\* the two strings are equal compared case-insensitively
SameName(a, b) == toLowerCase(a) = toLowerCase(b)

\* the state importData(rows) would leave when called now
Reimported(rows, now) ==
    ImportTrace([users |-> users, customers |-> customers, used |-> UsedIds], rows, 1, now)
        [Len(rows) + 1]

\* the number of orders in the tree cs
OrderCount(cs) == Cardinality({[order |-> p.order] : p \in PartsIn(cs)})

\* C4: after importData of a text, a second importData of the same text appends
\* no order to any site and leaves customers, sites, orders and users as the
\* first run left them
ReimportChangesNothing ==
    ImportDone =>
        \A now \in Clock : /\ Reimported(last.csv, now).customers = customers
                           /\ Reimported(last.csv, now).users = users

\* the first run appended orders and synthesized a user
ReimportChangesNothingWitness ==
    /\ ImportDone
    /\ OrderCount(customers) >= OrderCount(last.trace[1].customers) + 2
    /\ Len(users) > Len(last.trace[1].users)

\* C5: after importData, for every non-empty CustomerName of a row that matches
\* no customer existing before the call, the customer list holds exactly one
\* customer of that name compared case-insensitively
OneCustomerPerName ==
    ImportDone =>
        \A i \in DOMAIN last.csv :
            LET CustomerName == Field(last.csv[i], hCustomerName) IN
            (/\ CustomerName # <<>>
             /\ \A k \in DOMAIN last.trace[1].customers :
                    ~SameName(last.trace[1].customers[k].name, CustomerName))
                => Cardinality({k \in DOMAIN customers :
                                   SameName(customers[k].name, CustomerName)}) = 1

\* two rows name a customer that did not exist, in two letter cases
OneCustomerPerNameWitness ==
    /\ ImportDone
    /\ last.trace[1].customers = <<>>
    /\ \E i, j \in DOMAIN last.csv :
           /\ Field(last.csv[i], hCustomerName) # Field(last.csv[j], hCustomerName)
           /\ SameName(Field(last.csv[i], hCustomerName), Field(last.csv[j], hCustomerName))
    /\ Len(customers) = 1

\* C6: a row of importData whose CustomerName is empty leaves the customers,
\* their sites and orders, and the users unchanged, whatever its other fields
EmptyNameRowChangesNothing ==
    ImportDone =>
        \A i \in DOMAIN last.csv :
            Field(last.csv[i], hCustomerName) = <<>>
                => /\ last.trace[i + 1].customers = last.trace[i].customers
                   /\ last.trace[i + 1].users = last.trace[i].users

\* a row without CustomerName names a user nobody has and a complete order,
\* in a file whose other rows did change users and customers
EmptyNameRowChangesNothingWitness ==
    /\ ImportDone
    /\ last.trace[1].customers # customers
    /\ last.trace[1].users # users
    /\ \E i \in DOMAIN last.csv :
           /\ Field(last.csv[i], hCustomerName) = <<>>
           /\ Field(last.csv[i], hOrderNumber) # <<>>
           /\ Field(last.csv[i], hOrderAssignedUser) # <<>>
           /\ \A k \in DOMAIN users :
                  ~SameName(users[k].name, Field(last.csv[i], hOrderAssignedUser))

\* the text after a row is the text before it, or the row's text when there was none
Backfilled(before, after, imported) ==
    after = before \/ (before = <<>> /\ after = imported)

\* C7: a row of importData leaves every non-empty notes of a customer, and every
\* non-empty generalInfo of a site, that exists when the row is processed as it
\* is; an empty one stays empty or takes the row's CustomerNotes (SiteGeneralInfo)
BackfillKeepsText ==
    ImportDone =>
        \A i \in DOMAIN last.csv :
            \A ci \in DOMAIN last.trace[i].customers :
                /\ Backfilled(last.trace[i].customers[ci].notes,
                              last.trace[i + 1].customers[ci].notes,
                              Field(last.csv[i], hCustomerNotes))
                /\ \A si \in DOMAIN last.trace[i].customers[ci].sites :
                       Backfilled(last.trace[i].customers[ci].sites[si].generalInfo,
                                  last.trace[i + 1].customers[ci].sites[si].generalInfo,
                                  Field(last.csv[i], hSiteGeneralInfo))

\* a row brought other notes and other general info for a customer and a site
\* that had some, after an earlier row had filled empty ones
BackfillKeepsTextWitness ==
    /\ ImportDone
    /\ \E i \in DOMAIN last.csv : \E ci \in DOMAIN last.trace[i].customers :
           /\ last.trace[i].customers[ci].notes = <<>>
           /\ last.trace[i + 1].customers[ci].notes # <<>>
    /\ \E i \in DOMAIN last.csv : \E ci \in DOMAIN last.trace[i].customers :
           /\ SameName(last.trace[i].customers[ci].name, Field(last.csv[i], hCustomerName))
           /\ last.trace[i].customers[ci].notes # <<>>
           /\ Field(last.csv[i], hCustomerNotes) # <<>>
           /\ Field(last.csv[i], hCustomerNotes) # last.trace[i].customers[ci].notes
           /\ \E si \in DOMAIN last.trace[i].customers[ci].sites :
                  LET site == last.trace[i].customers[ci].sites[si] IN
                  /\ SameName(site.name, Field(last.csv[i], hSiteName))
                  /\ site.generalInfo # <<>>
                  /\ Field(last.csv[i], hSiteGeneralInfo) # <<>>
                  /\ Field(last.csv[i], hSiteGeneralInfo) # site.generalInfo

\* the row names a user that no user of us is, compared case-insensitively
NamesNewUser(row, us) ==
    /\ Field(row, hOrderAssignedUser) # <<>>
    /\ \A k \in DOMAIN us : ~SameName(us[k].name, Field(row, hOrderAssignedUser))

\* UserRole is, after trimming and in some letter case, Admin, Editor or Viewer
NamesRole(UserRole) == toLowerCase(trim(UserRole)) \in {toLowerCase(r) : r \in validRoles}

\* the row appended exactly one user, of the name the row gives and with the
\* role Viewer unless the row names a role
AppendedUser(row, before, after) ==
    /\ Len(after) = Len(before) + 1
    /\ SubSeq(after, 1, Len(before)) = before
    /\ after[Len(after)].name = Field(row, hOrderAssignedUser)
    /\ ~NamesRole(Field(row, hUserRole)) => after[Len(after)].role = sViewer

\* C8 as claimed: every row of importData whose OrderAssignedUser is non-empty
\* and matches no existing user appends exactly one user of that name, with role
\* Viewer when UserRole is blank or no role; any other row appends none
EveryNewNameAppendsUser ==
    ImportDone =>
        \A i \in DOMAIN last.csv :
            IF NamesNewUser(last.csv[i], last.trace[i].users)
            THEN AppendedUser(last.csv[i], last.trace[i].users, last.trace[i + 1].users)
            ELSE last.trace[i + 1].users = last.trace[i].users

\* C8 as amended: every row of importData whose CustomerName is non-empty and
\* whose OrderAssignedUser is non-empty and matches no existing user appends
\* exactly one user of that name, with role Viewer when UserRole is blank or no
\* role; any other row appends none
NewNameAppendsUser ==
    ImportDone =>
        \A i \in DOMAIN last.csv :
            IF /\ Field(last.csv[i], hCustomerName) # <<>>
               /\ NamesNewUser(last.csv[i], last.trace[i].users)
            THEN AppendedUser(last.csv[i], last.trace[i].users, last.trace[i + 1].users)
            ELSE last.trace[i + 1].users = last.trace[i].users

\* a row named a new user under a role that is no role, a later row named the
\* same user in another letter case
NewNameAppendsUserWitness ==
    /\ ImportDone
    /\ \E i, j \in DOMAIN last.csv :
           /\ i < j
           /\ Field(last.csv[i], hCustomerName) # <<>>
           /\ NamesNewUser(last.csv[i], last.trace[i].users)
           /\ Field(last.csv[i], hUserRole) # <<>>
           /\ ~NamesRole(Field(last.csv[i], hUserRole))
           /\ Field(last.csv[j], hCustomerName) # <<>>
           /\ Field(last.csv[j], hOrderAssignedUser) # Field(last.csv[i], hOrderAssignedUser)
           /\ SameName(Field(last.csv[j], hOrderAssignedUser),
                       Field(last.csv[i], hOrderAssignedUser))
\* the list the module reads back from the document under the key at its next
\* load: the document, or the empty list when there is none
Persisted(key) == loadInitialData(key, <<>>)

ThrowingOps == {"addSite", "addOrder", "addFileToSite", "addFileToOption"}
ResolvingOps ==
    {"updateSite", "deleteSite", "updateOrder", "updateOrderUser", "updateOrderNotes",
     "toggleOrderStatus", "deleteOrder", "deleteFileFromSite", "deleteFileFromOption"}

SiteMissing(a) == ~HasSite(customers, a.customerId, a.siteId)
OrderMissing(a) ==
    \/ SiteMissing(a)
    \/ OrderIndex(SiteOf(customers, a.customerId, a.siteId), a.orderId) = 0
UserMissing(a) == \A i \in DOMAIN users : users[i].id # a.userId

\* the customer, site, order, user or special option the call op(a) addresses
\* by id does not exist
ParentMissing(op, a) ==
    CASE op = "addSite" -> CustomerIndex(customers, a.customerId) = 0
      [] op \in {"updateSite", "deleteSite", "addFileToSite", "deleteFileFromSite"} ->
             SiteMissing(a)
      [] op = "addOrder" -> SiteMissing(a) \/ UserMissing(a)
      [] op \in {"updateOrder", "updateOrderNotes", "toggleOrderStatus", "deleteOrder"} ->
             OrderMissing(a)
      [] op = "updateOrderUser" -> OrderMissing(a) \/ UserMissing(a)
      [] op \in {"addFileToOption", "deleteFileFromOption"} ->
             OptionIndex(specialOptions, a.optionId) = 0
      [] OTHER -> FALSE

\* the step is a call that ran from its lookups to its end with what it
\* addresses missing (a resumed upload made its lookups earlier)
CalledWithoutParent ==
    /\ last' # last
    /\ Len(pending') = Len(pending)
    /\ ParentMissing(last'.op, last'.args)

ListsUnchanged ==
    /\ users' = users
    /\ customers' = customers
    /\ specialOptions' = specialOptions

ImportAborted ==
    /\ users' = users
    /\ customers' = customers
    /\ Persisted(USERS_KEY)' = Persisted(USERS_KEY)
    /\ Persisted(CUSTOMERS_KEY)' = Persisted(CUSTOMERS_KEY)

\* C11: importData of a text without a data row (the empty text, a header line
\* only, blank lines only after the header) throws, and the user list, the
\* customer list and both persisted documents are what they were before the call
ZeroRowImportThrows ==
    [][\A csvString \in ZeroRowCsvs, now \in Clock :
          importData(csvString, now) => (last'.thrown /\ ImportAborted)]_vars

\* an import has thrown when users and customers had been added and persisted
ZeroRowImportThrowsWitness ==
    /\ last.op = "importData" /\ last.thrown
    /\ Len(users) > Len(SeedUsers)
    /\ customers # <<>>
    /\ localStorage[USERS_KEY] = Some(users)
    /\ localStorage[CUSTOMERS_KEY] = Some(customers)

\* the numbers a text matching the pattern gives for day, month, year, hours,
\* minutes and seconds
DateComponents(c) ==
    [day |-> parseInt(SubSeq(c, 1, 2)), month |-> parseInt(SubSeq(c, 4, 5)),
     year |-> parseInt(SubSeq(c, 7, 10)), hours |-> TimePart(c, 12, 13),
     minutes |-> TimePart(c, 15, 16), seconds |-> TimePart(c, 18, 19)]

\* every component is in its range
ComponentsInRange(p) ==
    /\ p.month \in 1..12
    /\ p.day \in 1..DaysInMonth(p.year, p.month - 1)
    /\ p.hours \in 0..23
    /\ p.minutes \in 0..59
    /\ p.seconds \in 0..59

\* the local date that has these components
ComponentsDate(p) ==
    [year |-> p.year, month |-> p.month - 1, date |-> p.day, hours |-> p.hours,
     minutes |-> p.minutes, seconds |-> p.seconds]

\* the parts row i of the last import appended
PartsOfRow(i) == PartsIn(last.trace[i + 1].customers) \ PartsIn(last.trace[i].customers)

\* C12: an order imported from a row whose OrderCreationDate matches
\* dd/mm/yyyy, optionally followed by hh:mm:ss, a comma after the date
\* tolerated, is created at that date when every component is in range, and at
\* the current timestamp otherwise
StrictDateInRangeOrNow ==
    ImportDone =>
        \A i \in DOMAIN last.csv :
            LET OrderCreationDate == Field(last.csv[i], hOrderCreationDate)
                cleanedDateString == RemoveFirstComma(OrderCreationDate)
            IN  (OrderCreationDate # <<>> /\ MatchesDate(cleanedDateString))
                    => \A part \in PartsOfRow(i) :
                           IF ComponentsInRange(DateComponents(cleanedDateString))
                           THEN part.value.creationDate
                                    = toISOString(ComponentsDate(
                                          DateComponents(cleanedDateString)))
                           ELSE part.value.creationDate \in Clock

\* the columns of the header line, in their order
Columns ==
    <<hCustomerName, hCustomerNotes, hSiteName, hSiteGeneralInfo, hOrderPart, hOrderNumber,
      hOrderStatus, hOrderCreationDate, hOrderAssignedUser, hOrderNotes, hUserRole>>

\* position p of the line is outside double quotes: an even number of quote
\* characters precedes it
OutsideQuotes(line, p) == Cardinality({k \in 1..(p - 1) : line[k] = "\""}) % 2 = 0

\* the positions of the commas outside double quotes
FieldBreaks(line) == {p \in DOMAIN line : line[p] = "," /\ OutsideQuotes(line, p)}

\* the position of the i-th of them, 0 before the first field and Len(line) + 1
\* after the last
FieldBreak(line, i) ==
    IF i = 0 THEN 0
    ELSE IF i > Cardinality(FieldBreaks(line)) THEN Len(line) + 1
    ELSE CHOOSE p \in FieldBreaks(line) :
             Cardinality({q \in FieldBreaks(line) : q < p}) = i - 1

\* the characters of a field that belong to its value: every character but the
\* quotes, and of two adjacent quotes inside a quoted field the first
LiteralAt(line, p) ==
    \/ line[p] # "\""
    \/ ~OutsideQuotes(line, p) /\ p < Len(line) /\ line[p + 1] = "\""

\* the value of the field between positions from and to
QuotedValue(line, from, to) ==
    LET ps == {p \in from..to : LiteralAt(line, p)} IN
    [k \in 1..Cardinality(ps) |->
        line[CHOOSE p \in ps : Cardinality({q \in ps : q < p}) = k - 1]]

\* the row object of a data line under the header line: column k has the
\* trimmed value of field k, '' when the line has fewer fields
QuotedRow(line) ==
    [h \in {Columns[k] : k \in DOMAIN Columns} |->
        LET k == CHOOSE c \in DOMAIN Columns : Columns[c] = h IN
        IF k > Cardinality(FieldBreaks(line)) + 1 THEN <<>>
        ELSE trim(QuotedValue(line, FieldBreak(line, k - 1) + 1, FieldBreak(line, k) - 1))]

\* the data lines of a text that are not blank
DataLines(csvText) ==
    SelectSeq(Tail(split(SelectSeq(csvText, LAMBDA c : c # "\r"), "\n")),
              LAMBDA line : trim(line) # <<>>)

\* C13: for every data line parseCSV splits the fields only at the commas
\* outside double quotes, removes the delimiting quotes and turns each doubled
\* double quote inside a quoted field into one quote character
QuotedFieldsSplit ==
    ImportDone =>
        /\ Len(last.csv) = Len(DataLines(last.args.csvString))
        /\ \A i \in DOMAIN last.csv :
               last.csv[i] = QuotedRow(DataLines(last.args.csvString)[i])

\* the quoted field "a,b""c", after a quoted empty field and before a field
\* with an opening quote only, has given the value a,b"c
QuotedFieldsSplitWitness ==
    /\ ImportDone
    /\ DataLines(last.args.csvString)
           = <<Join(<<<<"\"","\"">>, tQuotedABC, <<"\"","a">>>>, <<",">>)>>
    /\ Field(last.csv[1], hCustomerName) = <<>>
    /\ Field(last.csv[1], hCustomerNotes) = <<"a",",","b","\"","c">>
    /\ Field(last.csv[1], hSiteName) = <<"a">>

\* the orders of every site of the customer tree cs
OrdersIn(cs) ==
    UNION {UNION {{cs[ci].sites[si].orders[oi] : oi \in DOMAIN cs[ci].sites[si].orders} :
                     si \in DOMAIN cs[ci].sites} :
              ci \in DOMAIN cs}

\* C14: in every state reachable by addOrder, importData, updateOrder,
\* updateOrderUser, updateOrderNotes, toggleOrderStatus and deleteOrder, every
\* order has exactly one of frames and doors non-null
OnePartPerOrder ==
    \A order \in OrdersIn(customers) : (order.frames = None) # (order.doors = None)

\* addOrder with both numbers has made a frames order and a doors order at the
\* same time, and the doors part has since been marked as sent
OnePartPerOrderWitness ==
    /\ last.op = "toggleOrderStatus" /\ last.args.part = "doors"
    /\ \E o, q \in OrdersIn(customers) :
           /\ o.id # q.id
           /\ o.frames # None /\ o.doors = None /\ o.frames[1].number = tF1
           /\ q.doors # None /\ q.frames = None /\ q.doors[1].number = tF2
           /\ q.id = last.args.orderId
           /\ q.doors[1].isSent
           /\ o.frames[1].creationDate = q.doors[1].creationDate

\* the customer tree cs has the file under the site
HasFile(cs, customerId, siteId, fileId) ==
    /\ HasSite(cs, customerId, siteId)
    /\ \E i \in DOMAIN SiteOf(cs, customerId, siteId).generalInfoFiles :
           SiteOf(cs, customerId, siteId).generalInfoFiles[i].id = fileId

\* C15: under any interleaving of addFileToSite with updateSite,
\* deleteFileFromSite, deleteSite and deleteCustomer on the same customer, when
\* addFileToSite has completed successfully the returned file record is among
\* the generalInfoFiles of the addressed site, in the in-memory and in the
\* persisted customer list
UploadedFileIsListed ==
    (last.op = "addFileToSite" /\ ~last.thrown) =>
        /\ HasFile(customers, last.args.customerId, last.args.siteId, last.args.fileId)
        /\ HasFile(Persisted(CUSTOMERS_KEY), last.args.customerId, last.args.siteId,
                   last.args.fileId)

=============================================================================
